---- MODULE Spec2Model ----
(***************************************************************************)
(* AutoSub Sync: the session state of App.tsx and the handlers that change *)
(* it, together with the two asynchronous operations they await            *)
(* (fileToBase64 and generateSrtFromVideo).                                *)
(*                                                                         *)
(* JavaScript strings are tuples of one-character strings, so that         *)
(* startsWith, includes, trim, split and the regular expressions are       *)
(* computed character by character.  A nullable field is either null (the  *)
(* empty tuple) or Some(v) (the one-element tuple holding v), which keeps  *)
(* null apart from the empty string.                                       *)
(*                                                                         *)
(* Every setState call is one atomic update of `state`: React applies the  *)
(* functional updaters in the order they were queued, on one thread.  A    *)
(* handler that awaits is split at the await: the part before it is the    *)
(* action of the user event, the part after it is the action of the        *)
(* promise settling, and any other event can occur in between.  A handler  *)
(* is reachable when the step whose screen carries its control is rendered *)
(* (App.tsx:297-301).                                                      *)
(***************************************************************************)
EXTENDS Integers, Sequences, FiniteSets, TLC

VARIABLES
    state,        \* the ProcessingState held by useState (App.tsx:13)
    apiKey,       \* whether process.env.API_KEY is set
    encodings,    \* pending fileToBase64 promises, with the handler awaiting each
    alignments,   \* pending generateSrtFromVideo promises, with the closure of the caller
    nEncodings,   \* number of fileToBase64 calls made so far
    nAlignments,  \* number of generateSrtFromVideo calls made so far
    requests,     \* number of outbound generateContent requests made so far
    last,         \* history: the event that produced the current state
    untouched,    \* history: no file was selected or dropped since the last reset
    encoded,      \* history: an encoding of the file now in videoFile has loaded
    failed,       \* history: the generate request whose failure the error screen shows
    helper        \* a helper of fileUtils.ts applied on its own: its name, argument, result

vars == <<state, apiKey, encodings, alignments, nEncodings, nAlignments,
          requests, last, untouched, encoded, failed, helper>>

----------------------------------------------------------------------------
(* Bounds of the model                                                     *)

MaxEncodings == 2
MaxAlignments == 2

----------------------------------------------------------------------------
(* Values                                                                  *)

null == <<>>
undefined == <<>>
Some(v) == <<v>>

\* JavaScript truthiness of a nullable string: null, undefined and "" are falsy.
Truthy(opt) == opt # null /\ opt[1] # <<>>

WhiteSpace == {" ", "\t", "\n", "\r"}

\* App.tsx:30 and 61, with MAX_FILE_SIZE_MB interpolated
MsgFileTooLarge ==
    <<"F", "i", "l", "e", " ", "t", "o", "o", " ", "l", "a", "r", "g", "e", ".", " ",
      "P", "l", "e", "a", "s", "e", " ", "u", "p", "l", "o", "a", "d", " ", "a", " ",
      "v", "i", "d", "e", "o", " ", "s", "m", "a", "l", "l", "e", "r", " ", "t", "h",
      "a", "n", " ", "2", "0", "0", "M", "B", ".">>

\* App.tsx:35 and 65
MsgInvalidVideo ==
    <<"P", "l", "e", "a", "s", "e", " ", "u", "p", "l", "o", "a", "d", " ", "a", " ",
      "v", "a", "l", "i", "d", " ", "v", "i", "d", "e", "o", " ", "f", "i", "l", "e",
      ".">>

\* App.tsx:45 and 74
MsgProcessFailed ==
    <<"F", "a", "i", "l", "e", "d", " ", "t", "o", " ", "p", "r", "o", "c", "e", "s",
      "s", " ", "v", "i", "d", "e", "o", " ", "f", "i", "l", "e", ".">>

\* App.tsx:81
MsgProvideBoth ==
    <<"P", "l", "e", "a", "s", "e", " ", "p", "r", "o", "v", "i", "d", "e", " ", "b",
      "o", "t", "h", " ", "a", " ", "v", "i", "d", "e", "o", " ", "a", "n", "d", " ",
      "a", " ", "t", "r", "a", "n", "s", "c", "r", "i", "p", "t", ".">>

\* App.tsx:96
MsgCommunicating ==
    <<"A", "n", " ", "e", "r", "r", "o", "r", " ", "o", "c", "c", "u", "r", "r", "e",
      "d", " ", "w", "h", "i", "l", "e", " ", "c", "o", "m", "m", "u", "n", "i", "c",
      "a", "t", "i", "n", "g", " ", "w", "i", "t", "h", " ", "A", "I", ".">>

\* App.tsx:98
MsgSizeHint ==
    <<" ", "(", "T", "h", "e", " ", "f", "i", "l", "e", " ", "m", "i", "g", "h", "t",
      " ", "b", "e", " ", "t", "o", "o", " ", "l", "a", "r", "g", "e", " ", "f", "o",
      "r", " ", "d", "i", "r", "e", "c", "t", " ", "A", "P", "I", " ", "p", "r", "o",
      "c", "e", "s", "s", "i", "n", "g", ".", " ", "T", "r", "y", " ", "c", "o", "m",
      "p", "r", "e", "s", "s", "i", "n", "g", " ", "i", "t", " ", "u", "n", "d", "e",
      "r", " ", "2", "0", "M", "B", ".", ")">>

\* fileUtils.ts:55
MsgApiKeyMissing ==
    <<"A", "P", "I", " ", "K", "e", "y", " ", "i", "s", " ", "m", "i", "s", "s", "i",
      "n", "g", ".", " ", "P", "l", "e", "a", "s", "e", " ", "e", "n", "s", "u", "r",
      "e", " ", "p", "r", "o", "c", "e", "s", "s", ".", "e", "n", "v", ".", "A", "P",
      "I", "_", "K", "E", "Y", " ", "i", "s", " ", "a", "v", "a", "i", "l", "a", "b",
      "l", "e", ".">>

\* fileUtils.ts:103
MsgEmptyResponse ==
    <<"G", "e", "m", "i", "n", "i", " ", "r", "e", "t", "u", "r", "n", "e", "d", " ",
      "a", "n", " ", "e", "m", "p", "t", "y", " ", "r", "e", "s", "p", "o", "n", "s",
      "e", ".">>

\* fileUtils.ts:113
MsgFailedGenerate ==
    <<"F", "a", "i", "l", "e", "d", " ", "t", "o", " ", "g", "e", "n", "e", "r", "a",
      "t", "e", " ", "s", "u", "b", "t", "i", "t", "l", "e", "s", ".">>

----------------------------------------------------------------------------
(* String functions                                                        *)

\* String.prototype.startsWith
startsWith(s, prefix) ==
    /\ Len(s) >= Len(prefix)
    /\ SubSeq(s, 1, Len(prefix)) = prefix

\* String.prototype.includes
includes(s, part) ==
    \E i \in 1..(Len(s) - Len(part) + 1) : SubSeq(s, i, i + Len(part) - 1) = part

RECURSIVE trimStart(_)
trimStart(s) ==
    IF s # <<>> /\ Head(s) \in WhiteSpace THEN trimStart(Tail(s)) ELSE s

RECURSIVE trimEnd(_)
trimEnd(s) ==
    IF s # <<>> /\ s[Len(s)] \in WhiteSpace THEN trimEnd(SubSeq(s, 1, Len(s) - 1)) ELSE s

\* String.prototype.trim
trim(s) == trimEnd(trimStart(s))

\* String.prototype.split with a one-character separator
RECURSIVE split(_, _)
split(s, sep) ==
    IF \A i \in 1..Len(s) : s[i] # sep
    THEN <<s>>
    ELSE LET i == CHOOSE j \in 1..Len(s) : s[j] = sep /\ \A k \in 1..(j - 1) : s[k] # sep
         IN  <<SubSeq(s, 1, i - 1)>> \o split(SubSeq(s, i + 1, Len(s)), sep)

toLowerCase(c) ==
    CASE c = "S" -> "s"
      [] c = "R" -> "r"
      [] c = "T" -> "t"
      [] OTHER -> c

----------------------------------------------------------------------------
(* types.ts                                                                *)

AppStep == {"UPLOAD", "TRANSCRIPT", "PROCESSING", "RESULT", "ERROR"}

----------------------------------------------------------------------------
(* The files the user can pick                                             *)

MAX_FILE_SIZE_MB == 200
MAX_FILE_SIZE_BYTES == MAX_FILE_SIZE_MB * 1024 * 1024

\* the threshold of the size hint in handleGenerate
HINT_SIZE_BYTES == 20 * 1024 * 1024

VideoMp4 == <<"v", "i", "d", "e", "o", "/", "m", "p", "4">>
AudioMpeg == <<"a", "u", "d", "i", "o", "/", "m", "p", "e", "g">>

\* A File as the handlers see it: its name, its size in bytes and its declared type.
\* The sizes sit on both sides of the two thresholds the code compares with.
Files ==
    { [name |-> <<"a", ".", "m", "p", "4">>, size |-> MAX_FILE_SIZE_BYTES,     type |-> VideoMp4],
      [name |-> <<"b", ".", "m", "p", "4">>, size |-> HINT_SIZE_BYTES,         type |-> VideoMp4],
      [name |-> <<"e", ".", "m", "p", "4">>, size |-> 0,                       type |-> VideoMp4],
      [name |-> <<"x", ".", "m", "p", "4">>, size |-> MAX_FILE_SIZE_BYTES + 1, type |-> VideoMp4],
      [name |-> <<"c", ".", "m", "p", "3">>, size |-> HINT_SIZE_BYTES + 1,     type |-> AudioMpeg],
      [name |-> <<"n">>,                     size |-> 1,                       type |-> <<>>] }

\* The transcripts the user can type: empty, blank, and text with blanks around it.
Transcripts == { <<>>, <<" ", "\n">>, <<" ", "a", " ">> }

----------------------------------------------------------------------------
(* services/fileUtils.ts: fileToBase64                                     *)

\* The base64 text of the file's bytes.  The bytes are not modelled: the text
\* is empty for an empty file and otherwise names the file it encodes, so that
\* the encodings of two files differ.
Base64Of(file) ==
    IF file.size = 0 THEN <<>> ELSE <<"Q", file.name[1], "=">>

\* FileReader.readAsDataURL
readAsDataURL(file) ==
    <<"d", "a", "t", "a", ":">> \o file.type
        \o <<";", "b", "a", "s", "e", "6", "4", ",">> \o Base64Of(file)

\* The value the promise resolves with when the reader loads.
fileToBase64(file) ==
    LET parts == split(readAsDataURL(file), ",")
    IN  IF Len(parts) >= 2 THEN Some(parts[2]) ELSE undefined

----------------------------------------------------------------------------
(* services/geminiService.ts: generateSrtFromVideo                         *)

\* The backtick character (U+0060), which has no string literal in TLA+.
Backtick == "U+0060"

Fence == <<Backtick, Backtick, Backtick>>

\* text.replace(/^```srt\s*/i, '')
stripSrtFence(text) ==
    IF /\ Len(text) >= 6
       /\ SubSeq(text, 1, 3) = Fence
       /\ [i \in 1..3 |-> toLowerCase(text[i + 3])] = <<"s", "r", "t">>
    THEN trimStart(SubSeq(text, 7, Len(text)))
    ELSE text

\* text.replace(/^```\s*/i, '')
stripOpenFence(text) ==
    IF startsWith(text, Fence) THEN trimStart(SubSeq(text, 4, Len(text))) ELSE text

\* text.replace(/```$/, '')
stripCloseFence(text) ==
    IF Len(text) >= 3 /\ SubSeq(text, Len(text) - 2, Len(text)) = Fence
    THEN SubSeq(text, 1, Len(text) - 3)
    ELSE text

cleanedText(text) == trim(stripCloseFence(stripOpenFence(stripSrtFence(text))))

\* What the model service can answer to one request: a response whose text is
\* undefined, empty or some text, or a failure with or without a message.
ResponseTexts ==
    { undefined,
      Some(<<>>),
      Some(<<"s">>),
      Some(Fence \o <<"s", "r", "t", "\n", "s", "\n">> \o Fence) }

RemoteMessages ==
    { undefined,
      Some(<<"4", "0", "0">>),
      Some(<<"e", "4", "0", "0", "!">>),
      Some(<<"5", "0", "3">>) }

ServiceOutcomes ==
    {[kind |-> "text", value |-> t] : t \in ResponseTexts}
        \cup {[kind |-> "error", value |-> m] : m \in RemoteMessages}

Resolved(v) == [ok |-> TRUE, value |-> v]
Rejected(m) == [ok |-> FALSE, message |-> m]

\* The request sent before the credential is looked at.
issuesRequestWithoutCredential(hasKey) == TRUE

\* Whether the call gets as far as ai.models.generateContent.
issuesRequest(hasKey) == hasKey

\* How the promise settles, given whether the credential was there when the call
\* was made and what the service answers.  An error thrown inside the try block,
\* the empty-response one included, is rethrown with its message, or with the
\* generic one when it has none.
generateSrtFromVideo(hasKey, outcome) ==
    IF ~issuesRequest(hasKey) THEN Rejected(MsgApiKeyMissing)
    ELSE LET thrown == IF outcome.kind = "error" THEN outcome.value
                       ELSE IF ~Truthy(outcome.value) THEN Some(MsgEmptyResponse)
                       ELSE null
         IN  IF outcome.kind = "text" /\ Truthy(outcome.value)
             THEN Resolved(cleanedText(outcome.value[1]))
             ELSE Rejected(IF Truthy(thrown) THEN thrown[1] ELSE MsgFailedGenerate)

----------------------------------------------------------------------------
(* App.tsx: the session state                                              *)

\* the argument of useState, which is also what handleReset sets
InitialState ==
    [ step         |-> "UPLOAD",
      videoFile    |-> null,
      videoBase64  |-> null,
      transcript   |-> <<>>,
      generatedSrt |-> <<>>,
      error        |-> null ]

Init ==
    /\ state = InitialState
    /\ apiKey \in BOOLEAN
    /\ encodings = {}
    /\ alignments = {}
    /\ nEncodings = 0
    /\ nAlignments = 0
    /\ requests = 0
    /\ last = [op |-> "init", arg |-> null]
    /\ untouched = TRUE
    /\ encoded = FALSE
    /\ failed = null
    /\ helper = null

----------------------------------------------------------------------------
(* App.tsx: handleFileSelect and handleDrop                                *)

VideoPrefix == <<"v", "i", "d", "e", "o", "/">>

\* selectTooLarge with the ceiling one byte too high: the property of C5 tells it
\* from the code.
selectTooLargeOffByOne(file) == file.size > MAX_FILE_SIZE_BYTES + 1

selectTooLarge(file) == file.size > MAX_FILE_SIZE_BYTES
selectNotVideo(file) == ~startsWith(file.type, VideoPrefix)
\* dropTooLarge with the ceiling itself refused: the property of C20 tells it
\* from the code.
dropTooLargeFromCeiling(file) == file.size >= MAX_FILE_SIZE_BYTES

dropTooLarge(file) == file.size > MAX_FILE_SIZE_BYTES
dropNotVideo(file) == ~startsWith(file.type, VideoPrefix)

\* The handler up to its await: the two guards, then the first setState and the
\* call of fileToBase64, whose promise stays pending.  selectBeforeAwait gives the
\* state it sets and whether it goes on to encode the file.
selectBeforeAwait(s, file) ==
    IF selectTooLarge(file)
    THEN [state |-> [s EXCEPT !.error = Some(MsgFileTooLarge)], encodes |-> FALSE]
    ELSE IF selectNotVideo(file)
    THEN [state |-> [s EXCEPT !.error = Some(MsgInvalidVideo)], encodes |-> FALSE]
    ELSE [state |-> [s EXCEPT !.videoFile = Some(file), !.error = null], encodes |-> TRUE]

handleFileSelect(file) ==
    /\ state.step = "UPLOAD"
    /\ LET before == selectBeforeAwait(state, file)
       IN  /\ state' = before.state
           /\ IF before.encodes
              THEN /\ nEncodings < MaxEncodings
                   /\ nEncodings' = nEncodings + 1
                   /\ encoded' = FALSE
                   /\ encodings' = encodings \cup
                          {[id |-> nEncodings + 1, file |-> file,
                            handler |-> "handleFileSelect"]}
              ELSE UNCHANGED <<encodings, nEncodings, encoded>>
    /\ last' = [op |-> "handleFileSelect", arg |-> file]
    /\ untouched' = FALSE
    /\ UNCHANGED <<helper, apiKey, alignments, nAlignments, requests, failed>>

dropBeforeAwait(s, file) ==
    IF dropTooLarge(file)
    THEN [state |-> [s EXCEPT !.error = Some(MsgFileTooLarge)], encodes |-> FALSE]
    ELSE IF dropNotVideo(file)
    THEN [state |-> [s EXCEPT !.error = Some(MsgInvalidVideo)], encodes |-> FALSE]
    ELSE [state |-> [s EXCEPT !.videoFile = Some(file), !.error = null], encodes |-> TRUE]

handleDrop(file) ==
    /\ state.step = "UPLOAD"
    /\ LET before == dropBeforeAwait(state, file)
       IN  /\ state' = before.state
           /\ IF before.encodes
              THEN /\ nEncodings < MaxEncodings
                   /\ nEncodings' = nEncodings + 1
                   /\ encoded' = FALSE
                   /\ encodings' = encodings \cup
                          {[id |-> nEncodings + 1, file |-> file,
                            handler |-> "handleDrop"]}
              ELSE UNCHANGED <<encodings, nEncodings, encoded>>
    /\ last' = [op |-> "handleDrop", arg |-> file]
    /\ untouched' = FALSE
    /\ UNCHANGED <<helper, apiKey, alignments, nAlignments, requests, failed>>

\* The setState calls after the await, in the try block and in the catch block.
selectLoaded(s, base64) == [s EXCEPT !.videoBase64 = base64, !.step = "TRANSCRIPT"]
selectFailed(s) == [s EXCEPT !.error = Some(MsgProcessFailed)]
dropLoaded(s, base64) == [s EXCEPT !.videoBase64 = base64, !.step = "TRANSCRIPT"]
dropFailed(s) == [s EXCEPT !.error = Some(MsgProcessFailed)]

\* reader.onload: the promise of a pending fileToBase64 resolves and the handler
\* that awaits it resumes.
EncodingLoaded(e) ==
    /\ e \in encodings
    /\ state' = IF e.handler = "handleFileSelect"
                THEN selectLoaded(state, fileToBase64(e.file))
                ELSE dropLoaded(state, fileToBase64(e.file))
    /\ encodings' = encodings \ {e}
    /\ last' = [op |-> "encodingLoaded", arg |-> e]
    /\ encoded' = (encoded \/ state.videoFile = Some(e.file))
    /\ failed' = null
    /\ UNCHANGED <<helper, apiKey, alignments, nEncodings, nAlignments, requests, untouched>>

\* reader.onerror: the promise rejects and the handler resumes in its catch block.
EncodingFailed(e) ==
    /\ e \in encodings
    /\ state' = IF e.handler = "handleFileSelect" THEN selectFailed(state) ELSE dropFailed(state)
    /\ encodings' = encodings \ {e}
    /\ last' = [op |-> "encodingFailed", arg |-> e]
    /\ UNCHANGED <<helper, apiKey, alignments, nEncodings, nAlignments, requests, untouched,
                   encoded, failed>>

----------------------------------------------------------------------------
(* App.tsx: the transcript screen                                          *)

\* onChange of the textarea
transcriptChange(text) ==
    /\ state.step = "TRANSCRIPT"
    /\ state' = [state EXCEPT !.transcript = text]
    /\ last' = [op |-> "transcriptChange", arg |-> null]
    /\ UNCHANGED <<helper, apiKey, encodings, alignments, nEncodings, nAlignments, requests,
                   untouched, encoded, failed>>

\* generateRefused without the trim: the property of C8 tells it from the code.
generateRefusedUntrimmed(s) ==
    \/ ~Truthy(s.videoBase64)
    \/ s.videoFile = null
    \/ s.transcript = <<>>

\* the guard of handleGenerate, on the state the handler closed over
generateRefused(s) ==
    \/ ~Truthy(s.videoBase64)
    \/ s.videoFile = null
    \/ trim(s.transcript) = <<>>

\* The state handleGenerate closed over, without the step (TRANSCRIPT) and the
\* error, neither of which it reads after the guard.
closureOf(s) ==
    [ videoBase64 |-> s.videoBase64, videoFile |-> s.videoFile,
      transcript |-> s.transcript, generatedSrt |-> s.generatedSrt ]

\* The handler up to its await.  It is the entry point of the transcript screen
\* and carries its own guard: the Generate button is disabled while the transcript
\* is blank (App.tsx:183), but the handler does not rely on that and is modelled
\* for every transcript.
handleGenerate ==
    /\ state.step = "TRANSCRIPT"
    /\ IF generateRefused(state)
       THEN /\ state' = [state EXCEPT !.error = Some(MsgProvideBoth)]
            /\ UNCHANGED <<alignments, nAlignments, requests>>
       ELSE /\ nAlignments < MaxAlignments
            /\ state' = [state EXCEPT !.step = "PROCESSING", !.error = null]
            /\ nAlignments' = nAlignments + 1
            /\ alignments' = alignments \cup
                   {[id |-> nAlignments + 1, closure |-> closureOf(state), hasKey |-> apiKey]}
            /\ requests' = requests + (IF issuesRequest(apiKey) THEN 1 ELSE 0)
    /\ last' = [op |-> "handleGenerate", arg |-> null]
    /\ failed' = null
    /\ UNCHANGED <<helper, apiKey, encodings, nEncodings, untouched, encoded>>

\* sizeHintApplies with the threshold included: the property of C9 tells it from
\* the code.
sizeHintAppliesFromThreshold(videoFile, errorMessage) ==
    /\ videoFile # null
    /\ videoFile[1].size >= HINT_SIZE_BYTES
    /\ includes(errorMessage, <<"4", "0", "0">>)

\* the size-related hint of the catch block
sizeHintApplies(videoFile, errorMessage) ==
    /\ videoFile # null
    /\ videoFile[1].size > HINT_SIZE_BYTES
    /\ includes(errorMessage, <<"4", "0", "0">>)

\* the message the catch block stores, from the closure of the handler and err.message
errorMessageOf(closure, message) ==
    LET errorMessage == IF message # <<>> THEN message ELSE MsgCommunicating
    IN  IF sizeHintApplies(closure.videoFile, errorMessage)
        THEN errorMessage \o MsgSizeHint
        ELSE errorMessage

generateResolved(s, srt) == [s EXCEPT !.generatedSrt = srt, !.step = "RESULT"]
\* generateRejected recording the message without leaving PROCESSING: the
\* property of C15 tells it from the code.
generateRejectedInPlace(s, closure, message) ==
    [s EXCEPT !.error = Some(errorMessageOf(closure, message))]

generateRejected(s, closure, message) ==
    [s EXCEPT !.step = "ERROR", !.error = Some(errorMessageOf(closure, message))]

\* A pending generateSrtFromVideo settles and handleGenerate resumes.
AlignmentSettles(c, outcome) ==
    /\ c \in alignments
    /\ LET result == generateSrtFromVideo(c.hasKey, outcome)
       IN  /\ IF result.ok
              THEN /\ state' = generateResolved(state, result.value)
                   /\ failed' = null
              ELSE /\ state' = generateRejected(state, c.closure, result.message)
                   /\ failed' = Some(c.closure)
           /\ last' = [op |-> IF result.ok THEN "alignmentResolved" ELSE "alignmentRejected",
                       arg |-> [call |-> c, result |-> result]]
    /\ alignments' = alignments \ {c}
    /\ UNCHANGED <<helper, apiKey, encodings, nEncodings, nAlignments, requests, untouched, encoded>>

\* Remove on the transcript screen, New Project on the result screen
handleReset ==
    /\ state.step \in {"TRANSCRIPT", "RESULT"}
    /\ state' = InitialState
    /\ last' = [op |-> "handleReset", arg |-> null]
    /\ untouched' = TRUE
    /\ encoded' = FALSE
    /\ UNCHANGED <<helper, apiKey, encodings, alignments, nEncodings, nAlignments, requests, failed>>

\* Try Again on the error screen
retry ==
    /\ state.step = "ERROR"
    /\ state' = [state EXCEPT !.step = "TRANSCRIPT", !.error = null]
    /\ last' = [op |-> "retry", arg |-> null]
    /\ failed' = null
    /\ UNCHANGED <<helper, apiKey, encodings, alignments, nEncodings, nAlignments, requests,
                   untouched, encoded>>

----------------------------------------------------------------------------

Next ==
    \/ \E file \in Files : handleFileSelect(file)
    \/ \E file \in Files : handleDrop(file)
    \/ \E e \in encodings : EncodingLoaded(e)
    \/ \E e \in encodings : EncodingFailed(e)
    \/ \E text \in Transcripts : transcriptChange(text)
    \/ handleGenerate
    \/ \E c \in alignments, outcome \in ServiceOutcomes : AlignmentSettles(c, outcome)
    \/ handleReset
    \/ retry

Spec == Init /\ [][Next]_vars

\* Every FileReader ends by firing onload or onerror, and every call of the
\* service ends by resolving or rejecting: a pending promise is settled at some
\* point, whatever else the user does meanwhile.
EncodingSettles(id) ==
    \E e \in encodings : e.id = id /\ (EncodingLoaded(e) \/ EncodingFailed(e))

AlignmentSettlesAtLast(id) ==
    \E c \in alignments, outcome \in ServiceOutcomes :
        c.id = id /\ AlignmentSettles(c, outcome)

PromisesSettle ==
    /\ \A id \in 1..MaxEncodings : WF_vars(EncodingSettles(id))
    /\ \A id \in 1..MaxAlignments : WF_vars(AlignmentSettlesAtLast(id))

LiveSpec == Spec /\ PromisesSettle

----------------------------------------------------------------------------
(* services/fileUtils.ts: downloadSrt and formatFileSize                   *)

DotSrt == <<".", "s", "r", "t">>

\* stripExtension cutting at the first dot of the name instead of the last: the
\* property of C17 tells it from the code.
stripExtensionAtFirstDot(filename) ==
    LET matches == { i \in 1..Len(filename) : filename[i] = "." /\ i < Len(filename) }
    IN  IF matches = {} THEN filename
        ELSE LET i == CHOOSE m \in matches : \A n \in matches : m <= n
             IN  SubSeq(filename, 1, i - 1)

\* filename.replace(/\.[^/.]+$/, ""): the match starts at a dot that is followed,
\* up to the end of the name, by at least one character and by no dot and no slash.
stripExtension(filename) ==
    LET matches == { i \in 1..Len(filename) :
                       /\ filename[i] = "."
                       /\ i < Len(filename)
                       /\ \A k \in (i + 1)..Len(filename) : filename[k] \notin {"/", "."} }
    IN  IF matches = {} THEN filename
        ELSE LET i == CHOOSE m \in matches : \A n \in matches : m <= n
             IN  SubSeq(filename, 1, i - 1)

\* element.download, the name the file is saved under
downloadSrt(filename) == stripExtension(filename) \o DotSrt

\* A byte count is written in base 1024, most significant digit first and without
\* leading zeros (<<0>> is zero), since the counts of interest exceed 32 bits.
\* Number.prototype.toString of a non-negative integer
RECURSIVE integerToString(_)
integerToString(n) ==
    LET digit == <<"0", "1", "2", "3", "4", "5", "6", "7", "8", "9">>[(n % 10) + 1]
    IN  IF n < 10 THEN <<digit>> ELSE Append(integerToString(n \div 10), digit)

\* parseFloat(x.toFixed(2)) + '', for x given in hundredths: trailing zeros of the
\* fraction are dropped.
hundredthsToString(h) ==
    LET int == integerToString(h \div 100)
        frac == h % 100
    IN  IF frac = 0 THEN int
        ELSE IF frac % 10 = 0 THEN int \o <<".">> \o integerToString(frac \div 10)
        ELSE int \o <<".">> \o integerToString(frac \div 10) \o integerToString(frac % 10)

\* Math.floor(Math.log(bytes) / Math.log(k)) for bytes >= 1
unitIndex(bytes) == Len(bytes) - 1

\* (bytes / Math.pow(k, i)).toFixed(2) in hundredths: the leading digit is the
\* integer part, the digits after it the fraction, rounded half up to two decimals.
scaledHundredths(bytes) ==
    LET d(j) == IF j <= Len(bytes) THEN bytes[j] ELSE 0
        top == d(2) * 1024 + d(3)
        below == d(4) * 1024 + d(5)
        n == 200 * top + 1048576
        gap == 2097152 - (n % 2097152)
        carry == gap <= 200 /\ gap * 1048576 <= 200 * below
    IN  100 * d(1) + (n \div 2097152) + (IF carry THEN 1 ELSE 0)

\* sizes[i], which is undefined past the end of the array
sizes == << <<"B", "y", "t", "e", "s">>, <<"K", "B">>, <<"M", "B">>, <<"G", "B">> >>

sizesAt(i) ==
    IF i + 1 <= Len(sizes) THEN sizes[i + 1]
    ELSE <<"u", "n", "d", "e", "f", "i", "n", "e", "d">>

formatFileSize(bytes) ==
    IF bytes = <<0>> THEN <<"0", " ", "B", "y", "t", "e", "s">>
    ELSE LET i == unitIndex(bytes)
         IN  hundredthsToString(scaledHundredths(bytes)) \o <<" ">> \o sizesAt(i)

----------------------------------------------------------------------------
(* The helpers applied on their own, one call each, outside any session    *)

\* A response wrapped in a code fence: whitespace, the opening fence with an
\* optional language hint, a newline, the interior, the closing fence on a line
\* of its own, whitespace.
FencedLeads == { <<>>, <<" ">>, <<"\n">> }
FencedHints == { <<>>, <<"s", "r", "t">>, <<"S", "R", "T">>, <<"t", "e", "x", "t">> }
FencedInteriors == { <<"s">>, <<"1", "\n", "s">>, <<" ", "s", " ">> }
FencedTrails == { <<>>, <<" ">>, <<"\n">> }

FencedResponses ==
    [lead : FencedLeads, hint : FencedHints, interior : FencedInteriors,
     trail : FencedTrails]

fencedText(r) ==
    r.lead \o Fence \o r.hint \o <<"\n">> \o r.interior \o <<"\n">> \o Fence \o r.trail

FilenameParts ==
    { <<>>, <<"a">>, <<".">>, <<"/">>, DotSrt, <<".", "m", "p", "4">> }

Filenames ==
    { p \o q \o r : p \in FilenameParts, q \in FilenameParts, r \in FilenameParts }
        \cup { <<"m", "o", "v", "i", "e", ".", "m", "p", "4">>, <<"c", "l", "i", "p">> }

\* Byte counts of one to five base-1024 digits, below 1023 * 1024^4, where the
\* quotient of the two logarithms still has the exact integer part.
ByteDigits == {0, 1, 512, 1023}

ByteCounts ==
    { <<0>> }
        \cup { <<a>> : a \in ByteDigits \ {0} }
        \cup { <<a, b>> : a \in ByteDigits \ {0}, b \in ByteDigits }
        \cup { <<a, b, c>> : a \in ByteDigits \ {0}, b \in ByteDigits, c \in ByteDigits }
        \cup { <<a, b, c, d>> : a \in ByteDigits \ {0}, b \in ByteDigits,
                                c \in ByteDigits, d \in ByteDigits }
        \cup { <<a, b, c, d, e>> : a \in ByteDigits \ {0, 1023}, b \in ByteDigits,
                                   c \in ByteDigits, d \in ByteDigits, e \in ByteDigits }

\* One call of one helper: the argument of the helper named by fn is the one that
\* counts, the other two are fillers; result is what it returned (or the message
\* it threw, ok being FALSE) once done.
NoResponse == [lead |-> <<>>, hint |-> <<>>, interior |-> <<"s">>, trail |-> <<>>]

helperCall(fn, response, filename, bytes) ==
    [fn |-> fn, response |-> response, filename |-> filename, bytes |-> bytes,
     done |-> FALSE, ok |-> FALSE, result |-> <<>>]

HelperCalls ==
    {helperCall("generateSrtFromVideo", r, <<>>, <<0>>) : r \in FencedResponses}
        \cup {helperCall("downloadSrt", NoResponse, f, <<0>>) : f \in Filenames}
        \cup {helperCall("formatFileSize", NoResponse, <<>>, b) : b \in ByteCounts}

HelperInit ==
    /\ state = InitialState
    /\ apiKey = TRUE
    /\ encodings = {}
    /\ alignments = {}
    /\ nEncodings = 0
    /\ nAlignments = 0
    /\ requests = 0
    /\ last = [op |-> "init", arg |-> null]
    /\ untouched = TRUE
    /\ encoded = FALSE
    /\ failed = null
    /\ helper \in HelperCalls

session == <<state, apiKey, encodings, alignments, nEncodings, nAlignments,
             requests, last, untouched, encoded, failed>>

\* The service answers with the fenced text and generateSrtFromVideo returns.
callGenerateSrtFromVideo ==
    /\ helper.fn = "generateSrtFromVideo"
    /\ ~helper.done
    /\ LET outcome == [kind |-> "text", value |-> Some(fencedText(helper.response))]
           settled == generateSrtFromVideo(apiKey, outcome)
       IN  helper' = [helper EXCEPT !.done = TRUE, !.ok = settled.ok,
                         !.result = IF settled.ok THEN settled.value ELSE settled.message]
    /\ UNCHANGED session

callDownloadSrt ==
    /\ helper.fn = "downloadSrt"
    /\ ~helper.done
    /\ helper' = [helper EXCEPT !.done = TRUE, !.ok = TRUE,
                                !.result = downloadSrt(helper.filename)]
    /\ UNCHANGED session

callFormatFileSize ==
    /\ helper.fn = "formatFileSize"
    /\ ~helper.done
    /\ helper' = [helper EXCEPT !.done = TRUE, !.ok = TRUE,
                                !.result = formatFileSize(helper.bytes)]
    /\ UNCHANGED session

HelperNext ==
    \/ callGenerateSrtFromVideo
    \/ callDownloadSrt
    \/ callFormatFileSize

HelperSpec == HelperInit /\ [][HelperNext]_vars

----------------------------------------------------------------------------
(* Properties                                                              *)

FileEvents == {"handleFileSelect", "handleDrop"}

\* the session fields other than step and error
Payload(s) ==
    [ videoFile |-> s.videoFile, videoBase64 |-> s.videoBase64,
      transcript |-> s.transcript, generatedSrt |-> s.generatedSrt ]

IsBlank(text) == \A i \in 1..Len(text) : text[i] \in WhiteSpace

Has400(text) ==
    \E i \in 1..(Len(text) - 2) : text[i] = "4" /\ text[i + 1] = "0" /\ text[i + 2] = "0"

EndsWith(text, suffix) ==
    /\ Len(text) >= Len(suffix)
    /\ SubSeq(text, Len(text) - Len(suffix) + 1, Len(text)) = suffix

\* C1: at most one alignment call is in flight at any time, that is,
\* generateSrtFromVideo is never invoked while an earlier invocation of it is
\* still unresolved.
C1_AtMostOneAlignmentInFlight == Cardinality(alignments) <= 1

\* the transitions of the workflow table, each with the event that takes it
WorkflowTable ==
    { <<"UPLOAD", "encodingLoaded", "TRANSCRIPT">>,
      <<"TRANSCRIPT", "handleReset", "UPLOAD">>,
      <<"TRANSCRIPT", "handleGenerate", "PROCESSING">>,
      <<"PROCESSING", "alignmentResolved", "RESULT">>,
      <<"PROCESSING", "alignmentRejected", "ERROR">>,
      <<"RESULT", "handleReset", "UPLOAD">>,
      <<"ERROR", "retry", "TRANSCRIPT">> }

\* C2: the step only ever changes along the transitions of the workflow table; in
\* particular it is PROCESSING immediately before it becomes RESULT or ERROR, and
\* UPLOAD immediately before an encoding completion moves it to TRANSCRIPT.
C2_StepFollowsWorkflowTable ==
    [][state'.step # state.step =>
           <<state.step, last'.op, state'.step>> \in WorkflowTable]_vars

\* C3: after a reset the session state equals the initial state and stays equal to
\* it until the user selects or drops a new file.
C3_ResetStateStaysInitial == untouched => state = InitialState

\* C4: videoBase64 is non-null if and only if videoFile is non-null and the encoding
\* of that same file has completed without error; it is then the encoding of the
\* file held in videoFile.
C4_Base64IffFileEncoded ==
    /\ state.videoBase64 # null <=> (state.videoFile # null /\ encoded)
    /\ state.videoBase64 # null =>
           /\ state.videoFile # null
           /\ state.videoBase64 = Some(Base64Of(state.videoFile[1]))

\* C5: a file whose size is greater than 209715200 bytes or whose type does not start
\* with "video/" is rejected by the file-select and file-drop handlers: step stays
\* UPLOAD, error becomes a non-null message, no other field of the session state
\* changes and no encoding is started.
C5_GuardRejectsFile ==
    [][(/\ last'.op \in FileEvents
        /\ \/ last'.arg.size > 209715200
           \/ Len(last'.arg.type) < 6
           \/ SubSeq(last'.arg.type, 1, 6) # <<"v", "i", "d", "e", "o", "/">>)
       => /\ state.step = "UPLOAD"
          /\ state'.step = "UPLOAD"
          /\ state'.error # null
          /\ Len(state'.error[1]) > 0
          /\ state' = [state EXCEPT !.error = state'.error]
          /\ encodings' = encodings
          /\ nEncodings' = nEncodings]_vars

\* C5 happens: a video one byte over the ceiling was dropped while the encoding of
\* an accepted file was pending.
C5_Witness ==
    /\ last.op = "handleDrop"
    /\ last.arg.size = 209715201
    /\ last.arg.type = VideoMp4
    /\ state.step = "UPLOAD"
    /\ state.error = Some(MsgFileTooLarge)
    /\ state.videoFile # null
    /\ encodings # {}

\* The other rejection of C5: a file of an accepted size that is no video was selected.
C5_NotVideoRejected ==
    /\ last.op = "handleFileSelect"
    /\ last.arg.type = AudioMpeg
    /\ last.arg.size <= 209715200
    /\ state.error = Some(MsgInvalidVideo)

\* C6: selecting a file of at most 209715200 bytes whose type starts with "video/"
\* starts exactly one encoding; when that encoding succeeds the state has step
\* TRANSCRIPT, videoFile equal to that file, videoBase64 equal to its encoding and
\* error null; and the step does not leave UPLOAD before the encoding completes.
C6_AcceptedFileReachesTranscript ==
    [][/\ (/\ last'.op \in FileEvents
           /\ last'.arg.size <= 209715200
           /\ startsWith(last'.arg.type, <<"v", "i", "d", "e", "o", "/">>))
          => /\ Cardinality(encodings') = Cardinality(encodings) + 1
             /\ \E e \in encodings' \ encodings : e.file = last'.arg
       /\ last'.op = "encodingLoaded"
          => /\ state'.step = "TRANSCRIPT"
             /\ state'.videoFile = Some(last'.arg.file)
             /\ state'.videoBase64 = Some(Base64Of(last'.arg.file))
             /\ state'.error = null
       /\ encodings' # {} => state'.step = "UPLOAD"]_vars

\* C7: error is null in every state whose step is PROCESSING or RESULT, and in the
\* state reached by every forward transition (UPLOAD->TRANSCRIPT on encode success,
\* TRANSCRIPT->PROCESSING on generate, PROCESSING->RESULT on success,
\* ERROR->TRANSCRIPT on retry).
C7_NoErrorAfterForwardTransition ==
    [][/\ state'.step \in {"PROCESSING", "RESULT"} => state'.error = null
       /\ <<state.step, last'.op, state'.step>> \in
              { <<"UPLOAD", "encodingLoaded", "TRANSCRIPT">>,
                <<"TRANSCRIPT", "handleGenerate", "PROCESSING">>,
                <<"PROCESSING", "alignmentResolved", "RESULT">>,
                <<"ERROR", "retry", "TRANSCRIPT">> }
          => state'.error = null]_vars

\* C8: a generate request made in TRANSCRIPT while the transcript is empty or
\* whitespace-only is rejected: step stays TRANSCRIPT, error is the
\* provide-both-inputs message, no alignment call is issued, and videoFile,
\* videoBase64, transcript and generatedSrt are unchanged.
C8_BlankTranscriptRejected ==
    [][(last'.op = "handleGenerate" /\ IsBlank(state.transcript))
       => /\ state.step = "TRANSCRIPT"
          /\ state'.step = "TRANSCRIPT"
          /\ state'.error = Some(MsgProvideBoth)
          /\ Payload(state') = Payload(state)
          /\ alignments' = alignments
          /\ nAlignments' = nAlignments
          /\ requests' = requests]_vars

\* C8 happens: generate was requested with a video present and a transcript of
\* white space only.
C8_Witness ==
    /\ last.op = "handleGenerate"
    /\ state.step = "TRANSCRIPT"
    /\ state.transcript = <<" ", "\n">>
    /\ state.videoFile # null
    /\ Truthy(state.videoBase64)
    /\ state.error = Some(MsgProvideBoth)

\* C9: when an alignment call fails, for whatever reason, the state becomes step
\* ERROR with error equal to the failure's message, which is never empty; the size
\* hint is appended to it if the size of the video of the request is strictly greater
\* than 20971520 bytes and the message contains "400", and not otherwise; videoFile,
\* videoBase64, transcript and generatedSrt are unchanged.
C9_FailureBecomesError ==
    [][last'.op = "alignmentRejected"
       => LET call == last'.arg.call
              message == last'.arg.result.message
              hinted == /\ call.closure.videoFile[1].size > 20971520
                        /\ Has400(message)
          IN  /\ call \in alignments
              /\ call \notin alignments'
              /\ Len(message) > 0
              /\ state'.step = "ERROR"
              /\ state'.error =
                     Some(IF hinted THEN message \o MsgSizeHint ELSE message)
              /\ Payload(state') = Payload(state)]_vars

\* C9 happens: a call for a video of 200 MB failed with a message containing "400"
\* and the error carries the hint.
C9_Witness ==
    /\ last.op = "alignmentRejected"
    /\ state.step = "ERROR"
    /\ last.arg.call.closure.videoFile[1].size = 209715200
    /\ state.error = Some(<<"e", "4", "0", "0", "!">> \o MsgSizeHint)

\* The other cases of C9: the same failure for a video of exactly 20 MB carries no
\* hint, and neither do the missing credential, the empty response and the failure
\* without a message, whatever the size.
C9_NoHintAtThreshold ==
    /\ last.op = "alignmentRejected"
    /\ last.arg.call.closure.videoFile[1].size = 20971520
    /\ state.error = Some(<<"4", "0", "0">>)

C9_MissingCredential ==
    /\ last.op = "alignmentRejected"
    /\ ~apiKey
    /\ requests = 0
    /\ last.arg.call.closure.videoFile[1].size = 209715200
    /\ state.error = Some(MsgApiKeyMissing)

C9_EmptyResponse ==
    /\ last.op = "alignmentRejected"
    /\ last.arg.call.closure.videoFile[1].size = 209715200
    /\ state.error = Some(MsgEmptyResponse)

C9_NoMessage ==
    /\ last.op = "alignmentRejected"
    /\ last.arg.call.closure.videoFile[1].size = 209715200
    /\ state.error = Some(MsgFailedGenerate)

\* C10: the retry action in ERROR produces a state with step TRANSCRIPT and error
\* null in which videoFile, videoBase64, transcript and generatedSrt are exactly what
\* they were when the failed generate request was made.
C10_RetryRestoresRequest ==
    [][last'.op = "retry"
       => /\ state.step = "ERROR"
          /\ state'.step = "TRANSCRIPT"
          /\ state'.error = null
          /\ failed # null
          /\ Payload(state') = failed[1]]_vars

\* C11: when the alignment call resolves, the step becomes RESULT with the
\* returned text as generatedSrt and no error, and videoFile, videoBase64 and
\* transcript keep their values.
C11_SuccessBecomesResult ==
    [][last'.op = "alignmentResolved" =>
          /\ state'.step = "RESULT"
          /\ state'.generatedSrt = last'.arg.result.value
          /\ state'.error = null
          /\ state'.videoFile = state.videoFile
          /\ state'.videoBase64 = state.videoBase64
          /\ state'.transcript = state.transcript]_vars

\* C12: generatedSrt is empty in every state whose step is not RESULT, and only
\* a successful alignment writes a text into it (a reset empties it again).
C12_SrtOnlyInResult ==
    [][/\ state'.step # "RESULT" => state'.generatedSrt = <<>>
       /\ state'.generatedSrt # state.generatedSrt =>
              \/ last'.op = "alignmentResolved"
              \/ last'.op = "handleReset" /\ state'.generatedSrt = <<>>]_vars

\* C13: an accepted generate request issues exactly one outbound request when
\* the credential is available and none when it is missing; nothing else issues
\* one (no retry when the call settles), so the requests never outnumber the
\* accepted generate requests.
C13_OneRequestPerInvocation ==
    /\ [](requests <= nAlignments)
    /\ [][/\ nAlignments' = nAlignments + 1 =>
                /\ last'.op = "handleGenerate"
                /\ requests' = requests + (IF apiKey THEN 1 ELSE 0)
          /\ nAlignments' = nAlignments => requests' = requests]_vars

C13_Witness ==
    /\ apiKey
    /\ nAlignments = 2
    /\ requests = 2
    /\ alignments = {}
    /\ last.op = "alignmentRejected"

C13_NoRequestWithoutCredential ==
    /\ ~apiKey
    /\ nAlignments = 2
    /\ requests = 0
    /\ alignments = {}

\* C14: when the encoding of an accepted file fails, the step is UPLOAD, the
\* error is set, and videoFile and videoBase64 are both null.
C14_EncodeFailureLeavesNoVideo ==
    [][last'.op = "encodingFailed" =>
          /\ state'.step = "UPLOAD"
          /\ state'.error # null
          /\ state'.videoFile = null
          /\ state'.videoBase64 = null]_vars

\* C19: whenever the step is TRANSCRIPT, videoFile is non-null and videoBase64
\* is a non-empty string, so that a generate request with a non-blank transcript
\* is always accepted.
C19_TranscriptStepHasVideo ==
    [][/\ state'.step = "TRANSCRIPT" =>
              /\ state'.videoFile # null
              /\ state'.videoBase64 # null
              /\ state'.videoBase64[1] # <<>>
       /\ last'.op = "handleGenerate" /\ ~IsBlank(state.transcript) =>
              state'.step = "PROCESSING"]_vars

\* C20: handleDrop does what handleFileSelect does with the same file from the
\* same state: it is offered in the same states, sets the same state before the
\* await, starts an encoding in the same cases, and sets the same state when
\* the encoding loads or fails.
C20_DropEquivalentToSelect ==
    /\ [](\A file \in Files : ENABLED handleDrop(file) <=> ENABLED handleFileSelect(file))
    /\ [][/\ last'.op = "handleDrop" =>
                LET select == selectBeforeAwait(state, last'.arg)
                IN  /\ state' = select.state
                    /\ (encodings' # encodings) = select.encodes
                    /\ \A e \in encodings' \ encodings : e.file = last'.arg
                    /\ Cardinality(encodings' \ encodings) <= 1
          /\ last'.op = "encodingLoaded" /\ last'.arg.handler = "handleDrop" =>
                state' = selectLoaded(state, fileToBase64(last'.arg.file))
          /\ last'.op = "encodingFailed" /\ last'.arg.handler = "handleDrop" =>
                state' = selectFailed(state)]_vars

C20_Witness ==
    /\ last.op = "encodingFailed"
    /\ last.arg.handler = "handleDrop"
    /\ last.arg.file.size = MAX_FILE_SIZE_BYTES
    /\ state.videoFile = Some(last.arg.file)
    /\ state.error = Some(MsgProcessFailed)

C20_DropRejected ==
    /\ last.op = "handleDrop"
    /\ state.error = Some(MsgInvalidVideo)

C20_DropLoaded ==
    /\ last.op = "encodingLoaded"
    /\ last.arg.handler = "handleDrop"
    /\ state.step = "TRANSCRIPT"

\* C16: for a response that is an opening fence with an optional language hint,
\* a newline, an interior, and a closing fence, with any whitespace before the
\* opening fence or after the closing one, generateSrtFromVideo returns exactly
\* the trimmed interior.
C16_FencedResponseGivesInterior ==
    helper.fn = "generateSrtFromVideo" /\ helper.done =>
        /\ helper.ok
        /\ helper.result = trim(helper.response.interior)

\* C17 as stated: downloadSrt names the file as the input name without its final
\* dot-extension (the whole name when there is none) plus ".srt"; the derivation
\* is idempotent and every derived name ends in exactly one ".srt".
C17_NameEndsInOneSrt ==
    helper.fn = "downloadSrt" /\ helper.done =>
        /\ helper.result = stripExtension(helper.filename) \o DotSrt
        /\ downloadSrt(helper.result) = helper.result
        /\ EndsWith(helper.result, DotSrt)
        /\ ~EndsWith(SubSeq(helper.result, 1, Len(helper.result) - Len(DotSrt)), DotSrt)

\* The name without its final dot-extension: what precedes the last dot, when
\* that dot is followed by at least one character and by no slash; the whole
\* name otherwise.
withoutFinalExtension(name) ==
    LET dots == { i \in 1..Len(name) : name[i] = "." }
    IN  IF dots = {} THEN name
        ELSE LET lastDot == CHOOSE i \in dots : \A j \in dots : j <= i
             IN  IF lastDot < Len(name) /\ \A k \in (lastDot + 1)..Len(name) : name[k] # "/"
                 THEN SubSeq(name, 1, lastDot - 1)
                 ELSE name

\* C17, amended: downloadSrt names the file as the input name without its final
\* dot-extension plus ".srt" ("movie.mp4" gives "movie.srt", "clip" gives
\* "clip.srt"); the derivation is idempotent and every derived name ends in
\* ".srt", in exactly one unless the name without its extension ends in ".srt"
\* itself.
C17_NameReplacesExtension ==
    /\ helper.fn = "downloadSrt" /\ helper.done =>
          LET stem == withoutFinalExtension(helper.filename)
          IN  /\ helper.result = stem \o DotSrt
              /\ downloadSrt(helper.result) = helper.result
              /\ EndsWith(helper.result, DotSrt)
              /\ ~EndsWith(stem, DotSrt) =>
                    ~EndsWith(SubSeq(helper.result, 1, Len(helper.result) - Len(DotSrt)),
                              DotSrt)
    /\ downloadSrt(<<"m", "o", "v", "i", "e", ".", "m", "p", "4">>)
          = <<"m", "o", "v", "i", "e", ".", "s", "r", "t">>
    /\ downloadSrt(<<"c", "l", "i", "p">>) = <<"c", "l", "i", "p", ".", "s", "r", "t">>

C17_Witness ==
    /\ helper.fn = "downloadSrt"
    /\ helper.done
    /\ helper.filename = <<"a", ".", "s", "r", "t", ".", "m", "p", "4">>
    /\ helper.result = <<"a", ".", "s", "r", "t", ".", "s", "r", "t">>

C17_MovieNamed ==
    /\ helper.fn = "downloadSrt"
    /\ helper.done
    /\ helper.filename = <<"m", "o", "v", "i", "e", ".", "m", "p", "4">>
    /\ helper.result = <<"m", "o", "v", "i", "e", ".", "s", "r", "t">>

\* The unit formatFileSize is to use for a count of at least one byte: the
\* largest power of 1024 not exceeding the count, capped at GB.
unitOf(bytes) ==
    IF Len(bytes) >= Len(sizes) THEN sizes[Len(sizes)] ELSE sizes[Len(bytes)]

\* C18: for every byte count of at least 1, formatFileSize returns a non-empty
\* string whose unit suffix is one of Bytes, KB, MB, GB, namely the largest
\* power of 1024 not exceeding the count, capped at GB; the count 0 gives
\* "0 Bytes".
C18_UnitIsLargestPowerOf1024 ==
    helper.fn = "formatFileSize" /\ helper.done =>
        IF helper.bytes = <<0>>
        THEN helper.result = <<"0", " ", "B", "y", "t", "e", "s">>
        ELSE /\ helper.result # <<>>
             /\ EndsWith(helper.result, <<" ">> \o unitOf(helper.bytes))

\* The user can start a new attempt: the upload screen, or the transcript
\* screen with a video present.
CanStartAttempt(s) ==
    \/ s.step = "UPLOAD"
    \/ s.step = "TRANSCRIPT" /\ s.videoFile # null

\* How far a state is from one where an attempt can start.
StepsToAttempt(s) ==
    IF CanStartAttempt(s) THEN 0
    ELSE IF s.step \in {"TRANSCRIPT", "RESULT"} THEN 1
    ELSE IF s.step = "ERROR" THEN 2
    ELSE 3

\* C15: with every issued encoding and alignment settling at some point, the
\* session never stays in PROCESSING forever (it leads to RESULT or ERROR), and
\* from every reachable state a state where the user can start a new attempt
\* stays reachable: some step leads closer to it.
C15_ProcessingEndsAndAttemptReachable ==
    /\ (state.step = "PROCESSING") ~> (state.step \in {"RESULT", "ERROR"})
    /\ [](\/ CanStartAttempt(state)
          \/ ENABLED (Next /\ StepsToAttempt(state') < StepsToAttempt(state)))

C15_Witness ==
    /\ last.op = "retry"
    /\ state.step = "TRANSCRIPT"
    /\ state.videoFile # null
    /\ nAlignments = 2
    /\ alignments = {}

====
